---- MODULE Spec2Model ----
(***************************************************************************)
(* Home Assistant driver interface of the platform driver agent            *)
(* (platform_driver/interfaces/home_assistant.py): the register table, the *)
(* write path (_set_point and the service helpers), the read paths         *)
(* (get_point, _scrape_all) and the hub behind the HTTP API.               *)
(***************************************************************************)
EXTENDS Integers, Sequences, FiniteSets, TLC

VARIABLES
    registry_config,  \* the registry entries held by the configuration store
    registers,        \* the register table, in insertion order
    units,            \* Interface.units
    hub,              \* hub state: entity id -> [state, attributes]
    pending,          \* the write the hub applied last, until the next call
    last,             \* the call in progress: what it was given, did and returns
    callers,          \* concurrent writers of one point: where each _set_point is
    driver_config,    \* the driver settings held by the configuration store
    connection        \* Interface.ip_address, access_token and port

vars == <<registry_config, registers, units, hub, pending, last, callers,
          driver_config, connection>>

(***************************************************************************)
(* Bounds of the model.                                                    *)
(***************************************************************************)
MaxRegs == 2     \* registry entries of a multi-point registry

(***************************************************************************)
(* Python values.  A float is held in tenths (98.6 is PyFloat(986)).       *)
(***************************************************************************)
PyInt(i) == [t |-> "int", n |-> i, s |-> ""]
PyFloat(tenths) == [t |-> "float", n |-> tenths, s |-> ""]
PyBool(b) == [t |-> "bool", n |-> IF b THEN 1 ELSE 0, s |-> ""]
PyStr(str) == [t |-> "str", n |-> 0, s |-> str]
PyNone == [t |-> "none", n |-> 0, s |-> ""]
\* a key that a dict does not hold
Absent == [t |-> "absent", n |-> 0, s |-> ""]

\* isinstance(v, int): true of int and of bool, its subclass
IsInstanceInt(v) == v.t \in {"int", "bool"}
IsNumber(v) == v.t \in {"int", "bool", "float"}
\* the numeric value of a number, in tenths
Tenths(v) == IF v.t = "float" THEN v.n ELSE v.n * 10
\* Python ==
PyEq(a, b) ==
    IF IsNumber(a) /\ IsNumber(b) THEN Tenths(a) = Tenths(b)
    ELSE a.t = b.t /\ a.n = b.n /\ a.s = b.s
\* the upper bound one too far
InRange_Loose(v, lo, hi) == lo * 10 <= Tenths(v) /\ Tenths(v) <= (hi + 1) * 10
\* Python lo <= v <= hi for a number v and integers lo, hi
InRange(v, lo, hi) == lo * 10 <= Tenths(v) /\ Tenths(v) <= hi * 10
\* v in [c1, c2, ...] for a list of integer literals
InList(v, ints) == IsNumber(v) /\ \E i \in ints : Tenths(v) = i * 10

\* truncation toward zero of a value in tenths, as int(float) does
Trunc(tenths) == IF tenths >= 0 THEN tenths \div 10 ELSE -((-tenths) \div 10)

\* the decimal numerals the model's strings can hold
ParseStr(str) ==
    CASE str = "0" -> PyInt(0)
      [] str = "1" -> PyInt(1)
      [] OTHER -> Absent

\* str(v)
StrOf(v) ==
    CASE v.t = "str" -> v.s
      [] v.t = "int" -> ToString(v.n)
      [] v.t = "bool" -> IF v.n = 1 THEN "True" ELSE "False"
      [] v.t = "float" ->
            IF v.n >= 0 THEN ToString(v.n \div 10) \o "." \o ToString(v.n % 10)
            ELSE "-" \o ToString((-v.n) \div 10) \o "." \o ToString((-v.n) % 10)
      [] OTHER -> "None"

\* reg_type(value): the coerced value, or Absent when the constructor raises
type_mapping(type_name) ==
    CASE type_name = "string" -> "str"
      [] type_name = "int" -> "int"
      [] type_name = "integer" -> "int"
      [] type_name = "float" -> "float"
      [] type_name = "bool" -> "bool"
      [] type_name = "boolean" -> "bool"
      [] OTHER -> "str"

\* a constructor that yields zero where int() and float() raise
Coerce_Lenient(reg_type, value) ==
    CASE reg_type = "int" ->
            CASE value.t \in {"int", "bool"} -> PyInt(value.n)
              [] value.t = "float" -> PyInt(Trunc(value.n))
              [] value.t = "str" ->
                    IF ParseStr(value.s) = Absent THEN PyInt(0) ELSE ParseStr(value.s)
              [] OTHER -> PyInt(0)
      [] reg_type = "float" ->
            CASE value.t \in {"int", "bool"} -> PyFloat(value.n * 10)
              [] value.t = "float" -> value
              [] value.t = "str" ->
                    IF ParseStr(value.s) = Absent THEN PyFloat(0)
                    ELSE PyFloat(ParseStr(value.s).n * 10)
              [] OTHER -> PyFloat(0)
      [] reg_type = "bool" ->
            CASE IsNumber(value) -> PyBool(value.n # 0)
              [] value.t = "str" -> PyBool(value.s # "")
              [] OTHER -> PyBool(FALSE)
      [] OTHER -> PyStr(StrOf(value))

Coerce(reg_type, value) ==
    CASE reg_type = "int" ->
            CASE value.t \in {"int", "bool"} -> PyInt(value.n)
              [] value.t = "float" -> PyInt(Trunc(value.n))
              [] value.t = "str" -> ParseStr(value.s)
              [] OTHER -> Absent
      [] reg_type = "float" ->
            CASE value.t \in {"int", "bool"} -> PyFloat(value.n * 10)
              [] value.t = "float" -> value
              [] value.t = "str" ->
                    IF ParseStr(value.s) = Absent THEN Absent
                    ELSE PyFloat(ParseStr(value.s).n * 10)
              [] OTHER -> Absent
      [] reg_type = "bool" ->
            CASE IsNumber(value) -> PyBool(value.n # 0)
              [] value.t = "str" -> PyBool(value.s # "")
              [] OTHER -> PyBool(FALSE)
      [] OTHER -> PyStr(StrOf(value))

(***************************************************************************)
(* Entity ids.  "light.kitchen" is [domain |-> "light", name |-> "kitchen"] *)
(* and the empty string is EmptyId.                                        *)
(***************************************************************************)
EntityId(domain, name) == [domain |-> domain, name |-> name]
EmptyId == EntityId("", "")
\* entity_id.startswith(domain + ".")
StartsWith(entity_id, domain) == entity_id.domain = domain

(***************************************************************************)
(* HTTP requests and the helpers that issue them.  A helper yields the     *)
(* requests it sends and how it ends under the hub's answer resp, one of   *)
(* "ok" (status 200), "non200" and "connerr" (requests.RequestException).  *)
(***************************************************************************)
Responses == {"ok", "non200", "connerr"}

PostReq(domain, service, entity_id, key, val) ==
    [method |-> "POST", domain |-> domain, service |-> service,
     entity_id |-> entity_id, key |-> key, val |-> val]
GetReq(entity_id) ==
    [method |-> "GET", domain |-> "states", service |-> "",
     entity_id |-> entity_id, key |-> "", val |-> Absent]

Sent(req, outcome) == [http |-> <<req>>, outcome |-> outcome]
NotSent(outcome) == [http |-> <<>>, outcome |-> outcome]

\* _post_method: raises on a status other than 200 and on a RequestException
post_method(req, resp) ==
    Sent(req, IF resp = "ok" THEN "ok" ELSE "TransportError")

turn_off_lights(entity_id, resp) ==
    post_method(PostReq("light", "turn_off", entity_id, "", Absent), resp)
turn_on_lights(entity_id, resp) ==
    post_method(PostReq("light", "turn_on", entity_id, "", Absent), resp)
change_brightness(entity_id, value, resp) ==
    post_method(PostReq("light", "turn_on", entity_id, "brightness", value), resp)

change_thermostat_mode(entity_id, mode, resp) ==
    IF ~StartsWith(entity_id, "climate") THEN NotSent("ok")
    ELSE post_method(PostReq("climate", "set_hvac_mode", entity_id,
                             "hvac_mode", PyStr(mode)), resp)

\* round((temperature - 32) * 5 / 9, 1), in tenths; no value of this form
\* lies halfway between two tenths
converted_temp(temperature) ==
    PyFloat((2 * (Tenths(temperature) - 320) * 5 + 9) \div 18)

set_thermostat_temperature(entity_id, temperature, self_units, resp) ==
    IF ~StartsWith(entity_id, "climate") THEN NotSent("ok")
    ELSE IF PyEq(self_units, PyStr("C"))
    THEN IF ~IsNumber(temperature) THEN NotSent("TypeError")
         ELSE post_method(PostReq("climate", "set_temperature", entity_id,
                                  "temperature", converted_temp(temperature)), resp)
    ELSE post_method(PostReq("climate", "set_temperature", entity_id,
                             "temperature", temperature), resp)

\* set_input_boolean posts without _post_method: a status other than 200 is
\* logged only, a RequestException propagates
set_input_boolean(entity_id, state, resp) ==
    Sent(PostReq("input_boolean",
                 IF state = "on" THEN "turn_on" ELSE "turn_off",
                 entity_id, "", Absent),
         IF resp = "connerr" THEN "TransportError" ELSE "ok")

turn_on_fan(entity_id, resp) ==
    post_method(PostReq("fan", "turn_on", entity_id, "", Absent), resp)
turn_off_fan(entity_id, resp) ==
    post_method(PostReq("fan", "turn_off", entity_id, "", Absent), resp)
set_fan_speed(entity_id, speed, resp) ==
    post_method(PostReq("fan", "set_speed", entity_id, "speed", speed), resp)

\* the switch turned on through the light service
turn_on_switch_AsLight(entity_id, resp) ==
    post_method(PostReq("light", "turn_on", entity_id, "", Absent), resp)
turn_on_switch(entity_id, resp) ==
    post_method(PostReq("switch", "turn_on", entity_id, "", Absent), resp)
turn_off_switch(entity_id, resp) ==
    post_method(PostReq("switch", "turn_off", entity_id, "", Absent), resp)

open_cover(entity_id, resp) ==
    post_method(PostReq("cover", "open_cover", entity_id, "", Absent), resp)
close_cover(entity_id, resp) ==
    post_method(PostReq("cover", "close_cover", entity_id, "", Absent), resp)
set_cover_position(entity_id, position, resp) ==
    post_method(PostReq("cover", "set_cover_position", entity_id,
                        "position", position), resp)

(***************************************************************************)
(* _set_point after the coercion: the branch on the entity's domain and    *)
(* sub-point, with value = register.value.                                 *)
(***************************************************************************)
BrightnessMax == 255
FanPercentMax == 100
CoverPositionMax == 100

\* the 1/0 branch without its isinstance test
OnOff_NoTypeCheck(value, on, off) ==
    IF InList(value, {0, 1})
    THEN IF PyEq(value, PyInt(1)) THEN on ELSE off
    ELSE NotSent("ValidationError")

\* the 1/0 branch shared by the state sub-points
OnOff(value, on, off) ==
    IF IsInstanceInt(value) /\ InList(value, {0, 1})
    THEN IF PyEq(value, PyInt(1)) THEN on ELSE off
    ELSE NotSent("ValidationError")

SetLight(register, value, resp) ==
    CASE register.entity_point = "state" ->
            OnOff(value, turn_on_lights(register.entity_id, resp),
                         turn_off_lights(register.entity_id, resp))
      [] register.entity_point = "brightness" ->
            IF IsInstanceInt(value) /\ InRange(value, 0, BrightnessMax)
            THEN change_brightness(register.entity_id, value, resp)
            ELSE NotSent("ValidationError")
      [] OTHER -> NotSent("ValidationError")

SetInputBoolean(register, value, resp) ==
    IF register.entity_point = "state"
    THEN OnOff(value, set_input_boolean(register.entity_id, "on", resp),
                      set_input_boolean(register.entity_id, "off", resp))
    ELSE NotSent("ok")

\* heat and cool exchanged
ClimateMode_Swapped(value) ==
    CASE PyEq(value, PyInt(0)) -> "off"
      [] PyEq(value, PyInt(2)) -> "cool"
      [] PyEq(value, PyInt(3)) -> "heat"
      [] OTHER -> "auto"

\* the mode _set_point passes to change_thermostat_mode for 0, 2, 3, 4
ClimateMode(value) ==
    CASE PyEq(value, PyInt(0)) -> "off"
      [] PyEq(value, PyInt(2)) -> "heat"
      [] PyEq(value, PyInt(3)) -> "cool"
      [] OTHER -> "auto"

SetClimate(register, value, self_units, resp) ==
    CASE register.entity_point = "state" ->
            IF IsInstanceInt(value) /\ InList(value, {0, 2, 3, 4})
            THEN change_thermostat_mode(register.entity_id, ClimateMode(value), resp)
            ELSE NotSent("ValidationError")
      [] register.entity_point = "temperature" ->
            set_thermostat_temperature(register.entity_id, value, self_units, resp)
      [] OTHER -> NotSent("ValidationError")

SetFan(register, value, resp) ==
    CASE register.entity_point = "state" ->
            OnOff(value, turn_on_fan(register.entity_id, resp),
                         turn_off_fan(register.entity_id, resp))
      [] register.entity_point = "percentage" ->
            IF IsInstanceInt(value) /\ InRange(value, 0, FanPercentMax)
            THEN set_fan_speed(register.entity_id, value, resp)
            ELSE NotSent("ValidationError")
      [] OTHER -> NotSent("ValidationError")

SetSwitch(register, value, resp) ==
    IF register.entity_point = "state"
    THEN OnOff(value, turn_on_switch(register.entity_id, resp),
                      turn_off_switch(register.entity_id, resp))
    ELSE NotSent("ValidationError")

SetCover(register, value, resp) ==
    CASE register.entity_point = "state" ->
            OnOff(value, open_cover(register.entity_id, resp),
                         close_cover(register.entity_id, resp))
      [] register.entity_point = "position" ->
            IF IsInstanceInt(value) /\ InRange(value, 0, CoverPositionMax)
            THEN set_cover_position(register.entity_id, value, resp)
            ELSE NotSent("ValidationError")
      [] OTHER -> NotSent("ValidationError")

\* the fallback branch returning instead of raising
Dispatch_SilentFallback(register, value, self_units, resp) ==
    CASE StartsWith(register.entity_id, "light") -> SetLight(register, value, resp)
      [] StartsWith(register.entity_id, "input_boolean") ->
            SetInputBoolean(register, value, resp)
      [] StartsWith(register.entity_id, "climate") ->
            SetClimate(register, value, self_units, resp)
      [] StartsWith(register.entity_id, "fan") -> SetFan(register, value, resp)
      [] StartsWith(register.entity_id, "switch") -> SetSwitch(register, value, resp)
      [] StartsWith(register.entity_id, "cover") -> SetCover(register, value, resp)
      [] OTHER -> NotSent("ok")

Dispatch(register, value, self_units, resp) ==
    CASE StartsWith(register.entity_id, "light") -> SetLight(register, value, resp)
      [] StartsWith(register.entity_id, "input_boolean") ->
            SetInputBoolean(register, value, resp)
      [] StartsWith(register.entity_id, "climate") ->
            SetClimate(register, value, self_units, resp)
      [] StartsWith(register.entity_id, "fan") -> SetFan(register, value, resp)
      [] StartsWith(register.entity_id, "switch") -> SetSwitch(register, value, resp)
      [] StartsWith(register.entity_id, "cover") -> SetCover(register, value, resp)
      [] OTHER -> NotSent("UnsupportedDomainError")

(***************************************************************************)
(* The register table: parse_config and the lookups of the base interface. *)
(***************************************************************************)
\* the string compared as it is written
Lower_AsWritten(str) == str

\* str.lower() on the strings a Writable field renders to
Lower(str) ==
    CASE str = "True" -> "true"
      [] str = "TRUE" -> "true"
      [] str = "False" -> "false"
      [] str = "Yes" -> "yes"
      [] OTHER -> str

\* dict.get(key, default)
DictGet(dict, key, default) == IF key \in DOMAIN dict THEN dict[key] ELSE default

HomeAssistantRegister(read_only, pointName, reg_units, reg_type, entity_id, entity_point) ==
    [read_only |-> read_only, point_name |-> pointName, units |-> reg_units,
     reg_type |-> reg_type, entity_id |-> entity_id,
     entity_point |-> entity_point, value |-> PyNone]

RequiredKeys == {"Entity ID", "Entity Point", "Volttron Point Name", "Units"}

\* the register one registry entry yields
RegisterOf(regDef) ==
    HomeAssistantRegister(
        Lower(StrOf(DictGet(regDef, "Writable", PyStr("")))) # "true",
        regDef["Volttron Point Name"],
        regDef["Units"],
        type_mapping(DictGet(regDef, "Type", "string")),
        regDef["Entity ID"],
        regDef["Entity Point"])

\* parse_config passing over an incomplete entry instead of raising
RECURSIVE parse_config_SkipIncomplete(_, _, _)
parse_config_SkipIncomplete(config_dict, i, st) ==
    IF i > Len(config_dict) THEN st
    ELSE LET regDef == config_dict[i] IN
         IF "Entity ID" \notin DOMAIN regDef
         THEN parse_config_SkipIncomplete(config_dict, i + 1, st)
         ELSE IF regDef["Entity ID"] = EmptyId
         THEN parse_config_SkipIncomplete(config_dict, i + 1, st)
         ELSE IF ~(RequiredKeys \subseteq DOMAIN regDef)
         THEN parse_config_SkipIncomplete(config_dict, i + 1, st)
         ELSE parse_config_SkipIncomplete(config_dict, i + 1,
                  [st EXCEPT !.registers = Append(st.registers, RegisterOf(regDef)),
                             !.units = regDef["Units"]])

\* parse_config leaving the loop at an entry with an empty Entity ID
RECURSIVE parse_config_StopAtEmpty(_, _, _)
parse_config_StopAtEmpty(config_dict, i, st) ==
    IF i > Len(config_dict) THEN st
    ELSE LET regDef == config_dict[i] IN
         IF "Entity ID" \notin DOMAIN regDef
         THEN [st EXCEPT !.outcome = "KeyError"]
         ELSE IF regDef["Entity ID"] = EmptyId
         THEN st
         ELSE IF ~(RequiredKeys \subseteq DOMAIN regDef)
         THEN [st EXCEPT !.outcome = "KeyError"]
         ELSE parse_config_StopAtEmpty(config_dict, i + 1,
                  [st EXCEPT !.registers = Append(st.registers, RegisterOf(regDef)),
                             !.units = regDef["Units"]])

\* parse_config from entry i on; st holds the table and self.units so far.
\* A regDef[...] of a missing key raises KeyError and ends the loop.
RECURSIVE parse_config(_, _, _)
parse_config(config_dict, i, st) ==
    IF i > Len(config_dict) THEN st
    ELSE LET regDef == config_dict[i] IN
         IF "Entity ID" \notin DOMAIN regDef
         THEN [st EXCEPT !.outcome = "KeyError"]
         ELSE IF regDef["Entity ID"] = EmptyId
         THEN parse_config(config_dict, i + 1, st)
         ELSE IF ~(RequiredKeys \subseteq DOMAIN regDef)
         THEN [st EXCEPT !.outcome = "KeyError"]
         ELSE parse_config(config_dict, i + 1,
                  [st EXCEPT !.registers = Append(st.registers, RegisterOf(regDef)),
                             !.units = regDef["Units"]])

\* get_register_by_name: the index of the register the point map holds for
\* the name (the last one inserted under it), 0 when there is none
get_register_by_name(regs, point_name) ==
    LET hits == {i \in 1..Len(regs) : regs[i].point_name = point_name}
    IN IF hits = {} THEN 0 ELSE CHOOSE i \in hits : \A j \in hits : j <= i

\* get_registers_by_type("byte", read_only): indices in insertion order
RECURSIVE get_registers_by_type(_, _, _)
get_registers_by_type(regs, read_only, i) ==
    IF i > Len(regs) THEN <<>>
    ELSE (IF regs[i].read_only = read_only THEN <<i>> ELSE <<>>)
         \o get_registers_by_type(regs, read_only, i + 1)

(***************************************************************************)
(* The hub: per entity a state string and an attribute dictionary.         *)
(***************************************************************************)
AttrNames == {"brightness", "temperature", "percentage", "position", "battery"}

SetAttr(data, key, val) ==
    [data EXCEPT !.attributes = [k \in DOMAIN data.attributes \cup {key} |->
                                    IF k = key THEN val ELSE data.attributes[k]]]

\* the states the hub may be in after a request it answered with status 200
HubApply(h, req) ==
    LET e == req.entity_id
        to(data) == {[h EXCEPT ![e] = data]}
    IN IF e \notin DOMAIN h THEN {h}
       ELSE CASE req.service = "turn_on" ->
                    to(IF req.key = "brightness"
                       THEN SetAttr([h[e] EXCEPT !.state = "on"], "brightness", req.val)
                       ELSE [h[e] EXCEPT !.state = "on"])
              [] req.service = "turn_off" -> to([h[e] EXCEPT !.state = "off"])
              [] req.service = "set_hvac_mode" -> to([h[e] EXCEPT !.state = req.val.s])
              [] req.service = "set_temperature" ->
                    to(SetAttr(h[e], "temperature", req.val))
              [] req.service = "set_speed" -> to(SetAttr(h[e], "percentage", req.val))
              [] req.service = "open_cover" ->
                    to([h[e] EXCEPT !.state = "opening"])
                    \cup to([h[e] EXCEPT !.state = "open"])
              [] req.service = "close_cover" ->
                    to([h[e] EXCEPT !.state = "closing"])
                    \cup to([h[e] EXCEPT !.state = "closed"])
              [] req.service = "set_cover_position" ->
                    to(SetAttr(h[e], "position", req.val))
              [] OTHER -> {h}

\* entity_data.get("attributes", {}).get(key, 0)
AttrGet(entity_data, key) ==
    IF key \in DOMAIN entity_data.attributes /\ entity_data.attributes[key] # Absent
    THEN entity_data.attributes[key]
    ELSE PyInt(0)

(***************************************************************************)
(* Decoding a hub payload as _scrape_all does for one register: a value,   *)
(* nothing ("unset": neither register.value nor the result is touched), or *)
(* an exception ("error").                                                 *)
(***************************************************************************)
Decoded(val) == [kind |-> "value", val |-> val]
Unset == [kind |-> "unset", val |-> Absent]
DecodeError == [kind |-> "error", val |-> Absent]

ScrapeClimate(entity_point, entity_data) ==
    IF entity_point = "state"
    THEN CASE entity_data.state = "off" -> Decoded(PyInt(0))
           [] entity_data.state = "heat" -> Decoded(PyInt(2))
           [] entity_data.state = "cool" -> Decoded(PyInt(3))
           [] entity_data.state = "auto" -> Decoded(PyInt(4))
           [] OTHER -> DecodeError
    ELSE Decoded(AttrGet(entity_data, entity_point))

\* an unrecognised state reported as 0, as the cover branch does
ScrapeOnOff_ZeroOnUnknown(entity_point, entity_data) ==
    IF entity_point = "state"
    THEN CASE entity_data.state = "on" -> Decoded(PyInt(1))
           [] entity_data.state = "off" -> Decoded(PyInt(0))
           [] OTHER -> Decoded(PyInt(0))
    ELSE Decoded(AttrGet(entity_data, entity_point))

\* light, input_boolean, fan and switch share this branch shape
ScrapeOnOff(entity_point, entity_data) ==
    IF entity_point = "state"
    THEN CASE entity_data.state = "on" -> Decoded(PyInt(1))
           [] entity_data.state = "off" -> Decoded(PyInt(0))
           [] OTHER -> Unset
    ELSE Decoded(AttrGet(entity_data, entity_point))

\* an unknown cover state raising as an unknown thermostat state does
ScrapeCover_Strict(entity_point, entity_data) ==
    IF entity_point = "state"
    THEN CASE entity_data.state \in {"open", "opening"} -> Decoded(PyInt(1))
           [] entity_data.state \in {"closed", "closing"} -> Decoded(PyInt(0))
           [] OTHER -> DecodeError
    ELSE Decoded(AttrGet(entity_data, entity_point))

ScrapeCover(entity_point, entity_data) ==
    IF entity_point = "state"
    THEN CASE entity_data.state \in {"open", "opening"} -> Decoded(PyInt(1))
           [] entity_data.state \in {"closed", "closing"} -> Decoded(PyInt(0))
           [] OTHER -> Decoded(PyInt(0))
    ELSE Decoded(AttrGet(entity_data, entity_point))

ScrapeGeneric(entity_point, entity_data) ==
    IF entity_point = "state"
    THEN Decoded(PyStr(entity_data.state))
    ELSE Decoded(AttrGet(entity_data, entity_point))

ScrapeOne(register, entity_data) ==
    CASE StartsWith(register.entity_id, "climate") ->
            ScrapeClimate(register.entity_point, entity_data)
      [] StartsWith(register.entity_id, "light")
           \/ StartsWith(register.entity_id, "input_boolean") ->
            ScrapeOnOff(register.entity_point, entity_data)
      [] StartsWith(register.entity_id, "fan") ->
            ScrapeOnOff(register.entity_point, entity_data)
      [] StartsWith(register.entity_id, "switch") ->
            ScrapeOnOff(register.entity_point, entity_data)
      [] StartsWith(register.entity_id, "cover") ->
            ScrapeCover(register.entity_point, entity_data)
      [] OTHER -> ScrapeGeneric(register.entity_point, entity_data)

\* get_entity_data: the payload, or an exception on a status other than 200
\* and on a connection failure
get_entity_data(h, entity_id, resp) ==
    IF resp = "ok" /\ entity_id \in DOMAIN h
    THEN [ok |-> TRUE, data |-> h[entity_id]]
    ELSE [ok |-> FALSE, data |-> [state |-> "", attributes |-> [k \in {} |-> Absent]]]

\* the loop recording results without updating register.value
RECURSIVE ScrapeLoop_NoCache(_, _, _, _, _)
ScrapeLoop_NoCache(order, k, acc, h, resps) ==
    IF k > Len(order) THEN acc
    ELSE LET i == order[k]
             register == acc.registers[i]
             entity_data == get_entity_data(h, register.entity_id, resps[i])
             d == IF ~entity_data.ok THEN DecodeError
                  ELSE ScrapeOne(register, entity_data.data)
         IN IF d.kind = "value"
            THEN ScrapeLoop_NoCache(order, k + 1,
                     [registers |-> acc.registers,
                      result |-> [p \in DOMAIN acc.result \cup {register.point_name} |->
                                    IF p = register.point_name THEN d.val
                                    ELSE acc.result[p]]],
                     h, resps)
            ELSE ScrapeLoop_NoCache(order, k + 1, acc, h, resps)

\* the loop without its try/except: the first failure ends the scrape
RECURSIVE ScrapeLoop_Abort(_, _, _, _, _)
ScrapeLoop_Abort(order, k, acc, h, resps) ==
    IF k > Len(order) THEN acc
    ELSE LET i == order[k]
             register == acc.registers[i]
             entity_data == get_entity_data(h, register.entity_id, resps[i])
             d == IF ~entity_data.ok THEN DecodeError
                  ELSE ScrapeOne(register, entity_data.data)
         IN IF d.kind = "value"
            THEN ScrapeLoop_Abort(order, k + 1,
                     [registers |-> [acc.registers EXCEPT ![i].value = d.val],
                      result |-> [p \in DOMAIN acc.result \cup {register.point_name} |->
                                    IF p = register.point_name THEN d.val
                                    ELSE acc.result[p]]],
                     h, resps)
            ELSE IF d.kind = "unset" THEN ScrapeLoop_Abort(order, k + 1, acc, h, resps)
            ELSE acc

\* one pass of the for loop of _scrape_all over order[k..]; acc holds the
\* table and the result dictionary so far, resps the hub's answer per register
RECURSIVE ScrapeLoop(_, _, _, _, _)
ScrapeLoop(order, k, acc, h, resps) ==
    IF k > Len(order) THEN acc
    ELSE LET i == order[k]
             register == acc.registers[i]
             entity_data == get_entity_data(h, register.entity_id, resps[i])
             d == IF ~entity_data.ok THEN DecodeError
                  ELSE ScrapeOne(register, entity_data.data)
         IN IF d.kind = "value"
            THEN ScrapeLoop(order, k + 1,
                     [registers |-> [acc.registers EXCEPT ![i].value = d.val],
                      result |-> [p \in DOMAIN acc.result \cup {register.point_name} |->
                                    IF p = register.point_name THEN d.val
                                    ELSE acc.result[p]]],
                     h, resps)
            ELSE ScrapeLoop(order, k + 1, acc, h, resps)

\* the registers in the order of the table
ScrapeOrder_TableOrder(regs) == [k \in 1..Len(regs) |-> k]

\* read_registers + write_registers
ScrapeOrder(regs) ==
    get_registers_by_type(regs, TRUE, 1) \o get_registers_by_type(regs, FALSE, 1)

(***************************************************************************)
(* Inputs: the registries the configuration store may hold, the hub states *)
(* the entities may be in, and the values a caller may write.              *)
(***************************************************************************)
RegDef(entity_id, entity_point, point_name, reg_units, writable, type_name) ==
    [k \in {"Entity ID", "Entity Point", "Volttron Point Name"} |->
        CASE k = "Entity ID" -> entity_id
          [] k = "Entity Point" -> entity_point
          [] OTHER -> point_name]
    @@ ("Units" :> reg_units) @@ ("Writable" :> writable) @@ ("Type" :> type_name)

\* every domain with the sub-points its branches tell apart and one more
DomainPoints ==
    ({"light"} \X {"state", "brightness", "battery"})
    \cup ({"input_boolean"} \X {"state", "battery"})
    \cup ({"climate"} \X {"state", "temperature", "battery"})
    \cup ({"fan"} \X {"state", "percentage", "battery"})
    \cup ({"switch"} \X {"state", "battery"})
    \cup ({"cover"} \X {"state", "position", "battery"})
    \cup ({"sensor"} \X {"state", "battery"})

TypeNames == {"int", "float", "string", "bool"}
Writables == {PyBool(TRUE), PyStr("false")}
UnitsFor(dp) ==
    IF dp = <<"climate", "temperature">> THEN {PyStr("C"), PyStr("F")}
    ELSE {PyStr("F")}

\* the registries of one entry
Registries ==
    {<<RegDef(EntityId(dp[1], "e1"), dp[2], pn, u, w, ty)>> :
        <<dp, pn, w, ty, u>> \in
            {x \in DomainPoints \X {"state", "p1"} \X Writables \X TypeNames
                     \X {PyStr("C"), PyStr("F")} : x[5] \in UnitsFor(x[1])}}

\* the entries of a registry of several points: a registry holds MaxRegs of
\* them, in this order
TableEntries ==
    <<RegDef(EntityId("climate", "e1"), "state", "p1", PyStr("F"), PyBool(TRUE), "int"),
      RegDef(EntityId("cover", "e2"), "state", "p2", PyStr("F"), PyStr("false"), "int"),
      RegDef(EntityId("light", "e3"), "state", "p3", PyStr("F"), PyBool(TRUE), "int"),
      RegDef(EntityId("sensor", "e4"), "state", "p4", PyStr("F"), PyStr("false"), "string"),
      RegDef(EntityId("fan", "e5"), "percentage", "p5", PyStr("F"), PyBool(TRUE), "int")>>

TableRegistries ==
    {[i \in 1..MaxRegs |-> TableEntries[pick[i]]] :
        pick \in {f \in [1..MaxRegs -> 1..Len(TableEntries)] :
                    \A i \in 1..(MaxRegs - 1) : f[i] < f[i + 1]}}

HubStates(domain) ==
    CASE domain \in {"light", "input_boolean", "fan", "switch"} ->
            {"on", "off", "unavailable"}
      [] domain = "climate" -> {"off", "heat", "cool", "auto", "dry"}
      [] domain = "cover" -> {"open", "opening", "closed", "closing", "unknown"}
      [] OTHER -> {"idle", "unavailable"}

HubAttributes ==
    {[k \in AttrNames |-> Absent], [k \in AttrNames |-> PyInt(42)]}

EntitiesOf(config_dict) ==
    {config_dict[i]["Entity ID"] : i \in 1..Len(config_dict)} \ {EmptyId}

\* every assignment of a state and attributes to the entities ents
RECURSIVE HubWorlds(_)
HubWorlds(ents) ==
    IF ents = {} THEN {[e \in {} |-> Absent]}
    ELSE LET e == CHOOSE x \in ents : TRUE IN
         {[x \in DOMAIN h \cup {e} |->
              IF x = e THEN [state |-> st, attributes |-> at] ELSE h[x]] :
            <<h, st, at>> \in HubWorlds(ents \ {e}) \X HubStates(e.domain) \X HubAttributes}

RawValues ==
    {PyInt(i) : i \in {-1, 0, 1, 2, 3, 4}}
    \cup {PyFloat(986), PyStr("abc"), PyBool(TRUE), PyNone}

\* the values written to the numeric sub-points: the edges of both ranges and
\* values of every type
RangeValues ==
    {PyInt(i) : i \in {-1, 0, 100, 101, 128, 255, 256}}
    \cup {PyFloat(986), PyFloat(1280), PyStr("abc"), PyBool(TRUE)}

\* registries of one writable numeric point, of every declared type
RangeRegistries ==
    {<<RegDef(EntityId(dp[1], "e1"), dp[2], "p1", PyStr("F"), PyBool(TRUE), ty)>> :
        <<dp, ty>> \in {<<"light", "brightness">>, <<"fan", "percentage">>,
                        <<"cover", "position">>} \X TypeNames}

\* registries of a thermostat temperature point and a sensor, each with its
\* own unit, in either order
UnitsRegistries ==
    UNION {{<<RegDef(EntityId("climate", "e1"), "temperature", "p1", u1, PyBool(TRUE), ty),
              RegDef(EntityId("sensor", "e2"), "state", "p2", u2, PyStr("false"), "string")>>,
            <<RegDef(EntityId("sensor", "e2"), "state", "p2", u2, PyStr("false"), "string"),
              RegDef(EntityId("climate", "e1"), "temperature", "p1", u1, PyBool(TRUE), ty)>>} :
        <<u1, u2, ty>> \in {PyStr("C"), PyStr("F")} \X {PyStr("C"), PyStr("F")}
                              \X {"float", "int", "string"}}

\* the registries of one entry that configures a Starting Value
SeededRegistries ==
    {<<r[1] @@ ("Starting Value" :> v)>> : <<r, v>> \in Registries \X {PyInt(1), PyInt(72)}}

\* a registry entry without one of its fields
Without(regDef, key) == [k \in DOMAIN regDef \ {key} |-> regDef[k]]

\* the entries a registry under construction is made of: two complete ones,
\* one lacking each field in turn, and entries with an empty Entity ID
BuildEntries ==
    LET a == RegDef(EntityId("light", "a"), "state", "pa", PyStr("F"), PyBool(TRUE), "int")
        b == RegDef(EntityId("sensor", "b"), "state", "pb", PyStr("C"), PyStr("false"),
                    "string")
        e == RegDef(EmptyId, "state", "pe", PyStr("F"), PyBool(TRUE), "int")
    IN {a, b, e, Without(e, "Entity Point")}
       \cup {Without(a, k) : k \in {"Entity ID", "Entity Point", "Volttron Point Name",
                                     "Units", "Writable", "Type"}}

BuildRegistries == [1..MaxRegs -> BuildEntries]

\* the entities a registry names, whatever its entries lack
BuildEntities(config) ==
    {config[i]["Entity ID"] :
        i \in {j \in 1..Len(config) : "Entity ID" \in DOMAIN config[j]}} \ {EmptyId}

\* what a Writable field may hold
FieldWritables ==
    {PyBool(TRUE), PyBool(FALSE), PyInt(1), PyStr("true"), PyStr("TRUE"), PyStr("True"),
     PyStr("false"), PyStr("Yes"), PyStr(""), PyStr(" true")}

\* registries of one entry: every point with its Type absent, unknown or
\* int, and two points with every Writable field, absent included
FieldRegistries ==
    LET entry(dp, w) == RegDef(EntityId(dp[1], "e1"), dp[2], "p1", PyStr("F"), w, "int")
    IN {<<Without(entry(dp, w), "Type")>> :
            <<dp, w>> \in DomainPoints \X {PyBool(TRUE), PyStr("TRUE")}}
       \cup {<<[entry(dp, w) EXCEPT !["Type"] = ty]>> :
                <<dp, w, ty>> \in DomainPoints \X {PyBool(TRUE), PyStr("TRUE")}
                                   \X {"double", "int"}}
       \cup {<<entry(dp, w)>> :
                <<dp, w>> \in {<<"light", "state">>, <<"climate", "temperature">>}
                              \X FieldWritables}
       \cup {<<Without(entry(dp, PyStr("")), "Writable")>> :
                dp \in {<<"light", "state">>, <<"climate", "temperature">>}}

\* the point names of the table
PointNames(regs) == {regs[i].point_name : i \in 1..Len(regs)}

(***************************************************************************)
(* The state machine.                                                      *)
(***************************************************************************)
NoResult == [p \in {} |-> Absent]
NoWrite == [point |-> "", value |-> Absent, ret |-> Absent]
Values(regs) == [i \in 1..Len(regs) |-> regs[i].value]

\* a call's record: its arguments, how it ended (outcome "ok" or the
\* exception), the value returned, the cached values before it, the requests
\* it issued with the hub's answers, a scrape's result, and the write the hub
\* had applied right before the call
Last(op, point, value, outcome, ret, before, http, resps, result) ==
    [op |-> op, point |-> point, value |-> value, outcome |-> outcome,
     ret |-> ret, before |-> before, http |-> http, resps |-> resps,
     result |-> result, after_write |-> pending]

Idle == [op |-> "idle", point |-> "", value |-> Absent, outcome |-> "ok",
         ret |-> Absent, before |-> <<>>, http |-> <<>>, resps |-> <<>>,
         result |-> NoResult, after_write |-> NoWrite]

\* the driver settings configure requires
FullSettings ==
    [ip_address |-> PyStr("10.0.0.2"), access_token |-> PyStr("token"),
     port |-> PyStr("8123")]
\* Interface.__init__: nothing is known of the hub yet
NoConnection == [ip_address |-> PyNone, access_token |-> PyNone, port |-> PyNone]

\* the driver settings the configuration store may hold
SettingsSets ==
    {FullSettings,
     [access_token |-> PyStr("token"), port |-> PyStr("8123")],
     [ip_address |-> PyStr("10.0.0.2"), port |-> PyStr("8123")],
     [ip_address |-> PyStr("10.0.0.2"), access_token |-> PyStr("token")],
     [FullSettings EXCEPT !.port = PyNone],
     [timeout |-> PyStr("30")]}

\* the checks of configure with the port check left out
MissingSetting_NoPort(conn) ==
    conn.ip_address = PyNone \/ conn.access_token = PyNone
\* configure raises ValueError when a setting is None
MissingSetting(conn) ==
    conn.ip_address = PyNone \/ conn.access_token = PyNone \/ conn.port = PyNone

\* no concurrent writer has started
NoCallers == [order |-> <<>>, of |-> <<>>]

InitWith(configs) ==
    /\ registry_config \in configs
    /\ hub \in HubWorlds(EntitiesOf(registry_config))
    /\ registers = <<>>
    /\ units = PyNone
    /\ pending = NoWrite
    /\ last = [Idle EXCEPT !.op = "init"]
    /\ callers = NoCallers
    /\ driver_config = FullSettings
    /\ connection = NoConnection

Init == InitWith(Registries)

\* configure: the settings are taken over and checked, then parse_config
\* runs over the registry of the configuration store
Configure ==
    /\ last.op = "init"
    /\ LET conn == [ip_address |-> DictGet(driver_config, "ip_address", PyNone),
                    access_token |-> DictGet(driver_config, "access_token", PyNone),
                    port |-> DictGet(driver_config, "port", PyNone)]
           st == parse_config(registry_config, 1,
                     [registers |-> registers, units |-> units, outcome |-> "ok"])
       IN /\ connection' = conn
          /\ IF MissingSetting(conn)
             THEN /\ registers' = registers
                  /\ units' = units
                  /\ last' = Last("configure", "", Absent, "ConfigurationError", Absent,
                                  Values(registers), <<>>, <<>>, NoResult)
             ELSE /\ registers' = st.registers
                  /\ units' = st.units
                  /\ last' = Last("configure", "", Absent, st.outcome, Absent,
                                  Values(registers), <<>>, <<>>, NoResult)
    /\ UNCHANGED <<registry_config, hub, pending, callers, driver_config>>

\* the read-only guard at the head of _set_point
RejectReadOnly_Off(register) == FALSE
RejectReadOnly(register) == register.read_only

\* _set_point(point_name, value) on a configured point, the hub answering a
\* POST with resp
SetPoint(point_name, value, resp) ==
    /\ last.op = "idle"
    /\ LET i == get_register_by_name(registers, point_name)
           done(regs, outcome, ret, http) ==
               /\ registers' = regs
               /\ last' = Last("set_point", point_name, value, outcome, ret,
                               Values(registers), http,
                               IF http = <<>> THEN <<>> ELSE <<resp>>, NoResult)
               /\ IF http # <<>> /\ resp = "ok"
                  THEN /\ hub' \in HubApply(hub, http[1])
                       /\ pending' = IF outcome = "ok"
                                     THEN [point |-> point_name, value |-> value,
                                           ret |-> ret]
                                     ELSE NoWrite
                  ELSE hub' = hub /\ pending' = NoWrite
       IN IF RejectReadOnly(registers[i])
          THEN done(registers, "ReadOnlyError", Absent, <<>>)
          ELSE IF Coerce(registers[i].reg_type, value) = Absent
          THEN done(registers, "CoercionError", Absent, <<>>)
          ELSE LET v == Coerce(registers[i].reg_type, value)
                   regs == [registers EXCEPT ![i].value = v]
                   d == Dispatch(regs[i], v, units, resp)
               IN done(regs, d.outcome, IF d.outcome = "ok" THEN v ELSE Absent, d.http)
    /\ UNCHANGED <<registry_config, units, callers, driver_config, connection>>

\* get_point(point_name) on a configured point, the hub answering the GET
\* with resp
GetPoint(point_name, resp) ==
    /\ last.op = "idle"
    /\ LET register == registers[get_register_by_name(registers, point_name)]
           entity_data == get_entity_data(hub, register.entity_id, resp)
           done(outcome, ret) ==
               last' = Last("get_point", point_name, Absent, outcome, ret,
                            Values(registers), <<GetReq(register.entity_id)>>,
                            <<resp>>, NoResult)
       IN IF ~entity_data.ok THEN done("TransportError", Absent)
          ELSE IF register.point_name = "state"
          THEN done("ok", PyStr(entity_data.data.state))
          ELSE done("ok", AttrGet(entity_data.data, register.point_name))
    /\ pending' = NoWrite
    /\ UNCHANGED <<registry_config, registers, units, hub, callers,
                 driver_config, connection>>

\* _scrape_all(), the hub answering the GET for register i with resps[i]
ScrapeAll(resps) ==
    /\ last.op = "idle"
    /\ LET order == ScrapeOrder(registers)
           acc == ScrapeLoop(order, 1, [registers |-> registers, result |-> NoResult],
                             hub, resps)
       IN /\ registers' = acc.registers
          /\ last' = Last("scrape_all", "", Absent, "ok", Absent, Values(registers),
                          [k \in 1..Len(order) |-> GetReq(registers[order[k]].entity_id)],
                          resps, acc.result)
    /\ pending' = NoWrite
    /\ UNCHANGED <<registry_config, units, hub, callers,
                 driver_config, connection>>

\* the call returns to its caller
Return ==
    /\ last.op \notin {"init", "idle"}
    /\ last' = Idle
    /\ UNCHANGED <<registry_config, registers, units, hub, pending, callers,
                 driver_config, connection>>

\* the hub on its own: a cover that was moving comes to rest
HubSettle(e) ==
    /\ last.op = "idle"
    /\ hub[e].state \in {"opening", "closing"}
    /\ hub' = [hub EXCEPT ![e].state = IF @ = "opening" THEN "open" ELSE "closed"]
    /\ UNCHANGED <<registry_config, registers, units, pending, last, callers,
                 driver_config, connection>>

Next ==
    \/ Configure
    \/ \E point_name \in PointNames(registers), value \in RawValues, resp \in Responses :
          SetPoint(point_name, value, resp)
    \/ \E point_name \in PointNames(registers), resp \in Responses :
          GetPoint(point_name, resp)
    \/ \E resps \in [1..Len(registers) -> Responses] : ScrapeAll(resps)
    \/ Return
    \/ \E e \in DOMAIN hub : HubSettle(e)

Spec == Init /\ [][Next]_vars

\* the read paths over the registries of several points
NextTable ==
    \/ Configure
    \/ \E point_name \in PointNames(registers), resp \in Responses :
          GetPoint(point_name, resp)
    \/ \E resps \in [1..Len(registers) -> Responses] : ScrapeAll(resps)
    \/ Return
    \/ \E e \in DOMAIN hub : HubSettle(e)

SpecTable == InitWith(TableRegistries) /\ [][NextTable]_vars

\* the hub on its own: a device that was on or off drops off the network
HubUnavailable(e) ==
    /\ last.op = "idle"
    /\ e.domain \in {"light", "input_boolean", "fan", "switch"}
    /\ hub[e].state \in {"on", "off"}
    /\ hub' = [hub EXCEPT ![e].state = "unavailable"]
    /\ UNCHANGED <<registry_config, registers, units, pending, last, callers,
                 driver_config, connection>>

\* the read paths while devices drop off
NextDrift ==
    \/ NextTable
    \/ \E e \in DOMAIN hub : HubUnavailable(e)

SpecDrift == InitWith(TableRegistries) /\ [][NextDrift]_vars

\* the hub with every entity at rest and no attribute reported yet
HubAtRest(ents) ==
    [e \in ents |->
        [state |-> CASE e.domain = "cover" -> "closed"
                     [] e.domain = "sensor" -> "idle"
                     [] OTHER -> "off",
         attributes |-> [k \in AttrNames |-> Absent]]]

\* Concurrent writers.  _set_point blocks in requests.post, where another
\* caller's _set_point may run: WriteBegin is the call up to the POST being
\* sent (lines 166-172 and the domain branch), WriteResponse the hub's answer
\* arriving and the return of register.value (line 376).
Callers == {1, 2}
RaceValues == {PyInt(1), PyInt(2)}

WriteBegin(c, point_name, value) ==
    /\ last.op = "idle"
    /\ c = Len(callers.of) + 1
    /\ LET i == get_register_by_name(registers, point_name)
           v == Coerce(registers[i].reg_type, value)
           regs == [registers EXCEPT ![i].value = v]
           d == Dispatch(regs[i], v, units, "ok")
           enter(pc, outcome, coerced, http, ret) ==
               callers' = [callers EXCEPT !.of = Append(@,
                              [pc |-> pc, point |-> point_name, value |-> value,
                               coerced |-> coerced, outcome |-> outcome,
                               http |-> http, ret |-> ret])]
       IN IF RejectReadOnly(registers[i])
          THEN enter("done", "ReadOnlyError", Absent, <<>>, Absent) /\ registers' = registers
          ELSE IF v = Absent
          THEN enter("done", "CoercionError", Absent, <<>>, Absent) /\ registers' = registers
          ELSE /\ registers' = regs
               /\ IF d.http = <<>>
                  THEN enter("done", d.outcome, v, <<>>,
                             IF d.outcome = "ok" THEN v ELSE Absent)
                  ELSE enter("waiting", "", v, d.http, Absent)
    /\ UNCHANGED <<registry_config, units, hub, pending, last,
                 driver_config, connection>>

WriteResponse(c, resp) ==
    /\ c \in DOMAIN callers.of
    /\ callers.of[c].pc = "waiting"
    /\ LET w == callers.of[c]
           i == get_register_by_name(registers, w.point)
           d == Dispatch(registers[i], w.coerced, units, resp)
       IN /\ callers' = [callers EXCEPT
                            !.order = Append(@, c),
                            !.of[c].pc = "done",
                            !.of[c].outcome = d.outcome,
                            !.of[c].ret = IF d.outcome = "ok" THEN registers[i].value
                                          ELSE Absent]
          /\ IF resp = "ok" THEN hub' \in HubApply(hub, w.http[1]) ELSE hub' = hub
    /\ UNCHANGED <<registry_config, registers, units, pending, last,
                 driver_config, connection>>

NextRace ==
    \/ Configure
    \/ Return
    \/ \E c \in Callers, point_name \in PointNames(registers), value \in RaceValues :
          WriteBegin(c, point_name, value)
    \/ \E c \in Callers, resp \in Responses : WriteResponse(c, resp)

InitRace ==
    /\ registry_config \in RangeRegistries
    /\ hub = HubAtRest(EntitiesOf(registry_config))
    /\ registers = <<>>
    /\ units = PyNone
    /\ pending = NoWrite
    /\ last = [Idle EXCEPT !.op = "init"]
    /\ callers = NoCallers
    /\ driver_config = FullSettings
    /\ connection = NoConnection

SpecRace == InitRace /\ [][NextRace]_vars

\* the read paths over registries that configure Starting Values
SpecSeeded == InitWith(SeededRegistries) /\ [][NextTable]_vars

\* building the register table
NextBuild ==
    \/ Configure
    \/ Return

InitBuild ==
    /\ registry_config \in BuildRegistries
    /\ driver_config \in SettingsSets
    /\ hub = HubAtRest(BuildEntities(registry_config))
    /\ registers = <<>>
    /\ units = PyNone
    /\ pending = NoWrite
    /\ last = [Idle EXCEPT !.op = "init"]
    /\ callers = NoCallers
    /\ connection = NoConnection

SpecBuild == InitBuild /\ [][NextBuild]_vars

\* writes to points whose Writable and Type fields vary
NextFields ==
    \/ Configure
    \/ \E pn \in PointNames(registers), v \in RawValues, resp \in Responses :
          SetPoint(pn, v, resp)
    \/ Return

InitFields ==
    /\ registry_config \in FieldRegistries
    /\ driver_config = FullSettings
    /\ hub = HubAtRest(EntitiesOf(registry_config))
    /\ registers = <<>>
    /\ units = PyNone
    /\ pending = NoWrite
    /\ last = [Idle EXCEPT !.op = "init"]
    /\ callers = NoCallers
    /\ connection = NoConnection

SpecFields == InitFields /\ [][NextFields]_vars

\* writes to the numeric sub-points
NextWrites ==
    \/ Configure
    \/ \E point_name \in PointNames(registers), value \in RangeValues, resp \in Responses :
          SetPoint(point_name, value, resp)
    \/ Return

InitWrites ==
    /\ registry_config \in RangeRegistries \cup UnitsRegistries
    /\ hub = HubAtRest(EntitiesOf(registry_config))
    /\ registers = <<>>
    /\ units = PyNone
    /\ pending = NoWrite
    /\ last = [Idle EXCEPT !.op = "init"]
    /\ callers = NoCallers
    /\ driver_config = FullSettings
    /\ connection = NoConnection

SpecWrites == InitWrites /\ [][NextWrites]_vars

(***************************************************************************)
(* Properties.  In a state where a call is in progress (last.op names it), *)
(* the table and the hub are as the call left them.                        *)
(***************************************************************************)
\* the register a call was made on, and its index in the table
LastIndex == get_register_by_name(registers, last.point)
LastRegister == registers[LastIndex]
IsWrite == last.op = "set_point"
\* the call issued a POST and the hub answered it with something else than 200
\* or not at all
HubCallFailed == IsWrite /\ last.http # <<>> /\ last.resps[1] # "ok"

\* C1: when the hub call of a write fails (status other than 200, or no
\* connection), the write raises and the point's cached value is what it was
\* before the write.
C1_FailedWriteLeavesCache ==
    HubCallFailed =>
        /\ last.outcome # "ok"
        /\ LastRegister.value = last.before[LastIndex]

\* C2: a write rejected by the type coercion or by the domain validation has
\* no partial effect: no HTTP request, cached value unchanged.
C2_RejectedWriteNoEffect ==
    (IsWrite /\ last.outcome \in {"CoercionError", "ValidationError"}) =>
        /\ last.http = <<>>
        /\ LastRegister.value = last.before[LastIndex]

\* C3: a write to a read-only point, whatever the value, fails with the
\* read-only error, issues no HTTP request and leaves the cached value of
\* every point as it was.
C3_ReadOnlyWriteRejected ==
    (IsWrite /\ LastRegister.read_only) =>
        /\ last.outcome = "ReadOnlyError"
        /\ last.http = <<>>
        /\ Values(registers) = last.before
        /\ pending = NoWrite

\* a write to a read-only point that holds a scraped value was rejected
C3_Witness ==
    /\ IsWrite /\ LastRegister.read_only
    /\ last.outcome = "ReadOnlyError"
    /\ last.before[LastIndex] # PyNone

\* the codec table of the specification, read side: what a scrape is to
\* report for a register given the hub's payload for its entity
C4_Expected(register, data) ==
    LET dom == register.entity_id.domain
        st == data.state
    IN IF register.entity_point # "state"
       THEN [kind |-> "value", val |-> AttrGet(data, register.entity_point)]
       ELSE CASE dom = "climate" ->
                    IF st = "off" THEN [kind |-> "value", val |-> PyInt(0)]
                    ELSE IF st = "heat" THEN [kind |-> "value", val |-> PyInt(2)]
                    ELSE IF st = "cool" THEN [kind |-> "value", val |-> PyInt(3)]
                    ELSE IF st = "auto" THEN [kind |-> "value", val |-> PyInt(4)]
                    ELSE [kind |-> "error", val |-> Absent]
              [] dom \in {"light", "input_boolean", "fan", "switch"} ->
                    IF st = "on" THEN [kind |-> "value", val |-> PyInt(1)]
                    ELSE IF st = "off" THEN [kind |-> "value", val |-> PyInt(0)]
                    ELSE [kind |-> "unset", val |-> Absent]
              [] dom = "cover" ->
                    [kind |-> "value",
                     val |-> IF st \in {"open", "opening"} THEN PyInt(1) ELSE PyInt(0)]
              [] OTHER -> [kind |-> "value", val |-> PyStr(st)]

IsScrape == last.op = "scrape_all"

\* C4: scrape_all never raises; under any combination of per-point failures
\* (GET answered with another status than 200, connection error, unsupported
\* climate state) its result holds the decoded value of every point that did
\* not fail and has no entry for a point that failed (nor for an on/off point
\* whose state is neither on nor off, which is left unset).
C4_ScrapeIsolatesFailures ==
    IsScrape =>
        /\ last.outcome = "ok"
        /\ \A i \in 1..Len(registers) :
              LET r == registers[i]
                  e == C4_Expected(r, hub[r.entity_id])
              IN IF last.resps[i] # "ok" \/ e.kind # "value"
                 THEN r.point_name \notin DOMAIN last.result
                 ELSE /\ r.point_name \in DOMAIN last.result
                      /\ last.result[r.point_name] = e.val

\* a scrape in which one point's GET failed and a point scraped after it is
\* reported
C4_Witness ==
    /\ IsScrape
    /\ Len(last.http) >= 2
    /\ last.resps[ScrapeOrder(registers)[1]] # "ok"
    /\ registers[ScrapeOrder(registers)[2]].point_name \in DOMAIN last.result

\* C5: in every writable domain, a POST answered with a status other than 200
\* makes the write fail with a transport error.
C5_Non200WriteRaises ==
    (IsWrite /\ last.http # <<>> /\ last.resps[1] = "non200") =>
        last.outcome = "TransportError"

OnOffDomains == {"light", "input_boolean", "fan", "switch", "cover"}

\* the points of the round trip: on/off state, fan percentage, cover position
RoundTripPoint(r) ==
    \/ r.entity_point = "state" /\ r.entity_id.domain \in OnOffDomains
    \/ r.entity_point = "percentage" /\ r.entity_id.domain = "fan"
    \/ r.entity_point = "position" /\ r.entity_id.domain = "cover"

\* an integer in the range of the sub-point
InRangeFor(r, v) ==
    /\ v.t = "int"
    /\ IF r.entity_point = "state" THEN v.n \in {0, 1} ELSE v.n \in 0..100

\* the call in progress directly follows a write that succeeded and that the
\* hub applied; WrittenRegister is the register written
AfterWrite == last.after_write # NoWrite
WrittenIndex == get_register_by_name(registers, last.after_write.point)
WrittenRegister == registers[WrittenIndex]
\* a scrape right after such a write, the hub answering the GET for the point
ScrapeAfterWrite == IsScrape /\ AfterWrite /\ last.resps[WrittenIndex] = "ok"

\* C6: after a successful, applied write of an in-range v to a
\* round-trip point, the next scrape reports v for the point.
C6_ScrapeReportsWrittenValue ==
    (ScrapeAfterWrite /\ RoundTripPoint(WrittenRegister)
        /\ InRangeFor(WrittenRegister, last.after_write.value)) =>
        /\ last.after_write.point \in DOMAIN last.result
        /\ PyEq(last.result[last.after_write.point], last.after_write.value)

\* C7: get_point right after a successful, applied write of 1 (of 0) to the
\* state of a fan, switch or cover returns 1, 3 or "on" (0, 4 or "off"),
\* under any point name.
C7_GetPointAfterStateWrite ==
    (/\ last.op = "get_point" /\ last.outcome = "ok"
     /\ AfterWrite /\ last.after_write.point = last.point
     /\ LastRegister.entity_point = "state"
     /\ LastRegister.entity_id.domain \in {"fan", "switch", "cover"}
     /\ last.after_write.value \in {PyInt(0), PyInt(1)}) =>
        IF last.after_write.value = PyInt(1)
        THEN last.ret \in {PyInt(1), PyInt(3), PyStr("on")}
        ELSE last.ret \in {PyInt(0), PyInt(4), PyStr("off")}

\* C8: get_point returns what scrape_all records for the point under the same
\* hub state.
C8_GetPointDecodesAsScrape ==
    (last.op = "get_point" /\ last.outcome = "ok") =>
        LET d == ScrapeOne(LastRegister, hub[LastRegister.entity_id])
        IN d.kind = "value" /\ PyEq(last.ret, d.val)

\* a write that passed the read-only guard on the state of an on/off domain
StateWrite ==
    /\ IsWrite /\ ~LastRegister.read_only
    /\ LastRegister.entity_point = "state"
    /\ LastRegister.entity_id.domain \in OnOffDomains

\* the call issued exactly the POST of service on its own entity, no payload
DispatchedService(service) ==
    last.http = <<PostReq(LastRegister.entity_id.domain, service,
                          LastRegister.entity_id, "", Absent)>>
OnService == IF LastRegister.entity_id.domain = "cover" THEN "open_cover" ELSE "turn_on"
OffService == IF LastRegister.entity_id.domain = "cover" THEN "close_cover" ELSE "turn_off"
RejectedBeforeHttp ==
    last.outcome \in {"ValidationError", "CoercionError"} /\ last.http = <<>>

\* C9 as stated: on the state of an on/off domain, under every declared type,
\* writing 1 dispatches on/open, writing 0 dispatches off/close, and writing
\* anything else fails before any HTTP call.
C9_StateWriteByValue ==
    StateWrite =>
        IF PyEq(last.value, PyInt(1)) THEN DispatchedService(OnService)
        ELSE IF PyEq(last.value, PyInt(0)) THEN DispatchedService(OffService)
        ELSE RejectedBeforeHttp

\* C9 amended: the branch is taken on the value coerced to the declared type:
\* integer 1 (or True) dispatches on/open, integer 0 (or False) off/close,
\* and any other coerced value (another integer, a float, a string) fails
\* with a validation error before any HTTP call; an integer written to a
\* point declared int behaves as the claim states.
C9_StateWriteByCoercedValue ==
    StateWrite =>
        /\ last.outcome = "CoercionError" => last.http = <<>>
        /\ last.outcome # "CoercionError" =>
              LET c == LastRegister.value
              IN IF IsInstanceInt(c) /\ c.n = 1 THEN DispatchedService(OnService)
                 ELSE IF IsInstanceInt(c) /\ c.n = 0 THEN DispatchedService(OffService)
                 ELSE last.outcome = "ValidationError" /\ last.http = <<>>
        /\ (LastRegister.reg_type = "int" /\ last.value.t = "int") =>
              IF last.value = PyInt(1) THEN DispatchedService(OnService)
              ELSE IF last.value = PyInt(0) THEN DispatchedService(OffService)
              ELSE last.outcome = "ValidationError" /\ last.http = <<>>

\* a point declared bool is written 2 and the on/open command goes out
C9_Witness ==
    /\ StateWrite
    /\ LastRegister.reg_type = "bool"
    /\ last.value = PyInt(2)
    /\ DispatchedService(OnService)

C10_Pairs == {<<0, "off">>, <<2, "heat">>, <<3, "cool">>, <<4, "auto">>}

IsClimateState(r) == r.entity_id.domain = "climate" /\ r.entity_point = "state"

NumericPoint(r) ==
    \/ r.entity_id.domain = "light" /\ r.entity_point = "brightness"
    \/ r.entity_id.domain = "fan" /\ r.entity_point = "percentage"
    \/ r.entity_id.domain = "cover" /\ r.entity_point = "position"
C11_Top(r) == IF r.entity_point = "brightness" THEN 255 ELSE 100

\* C11: a brightness write is accepted iff the coerced value is an integer
\* (a Python int, bool included) in 0..255, a fan percentage or cover position
\* write iff it is one in 0..100; an accepted value goes out as the payload of
\* exactly one POST (brightness under the key brightness) and the write then
\* succeeds iff the hub answers 200; a rejected value fails with a validation
\* error and no HTTP call.
C11_RangeCheckedWrites ==
    (IsWrite /\ ~LastRegister.read_only /\ NumericPoint(LastRegister)) =>
        IF last.outcome = "CoercionError" THEN last.http = <<>>
        ELSE LET c == LastRegister.value
             IN IF c.t \in {"int", "bool"} /\ 0 <= c.n /\ c.n <= C11_Top(LastRegister)
                THEN /\ Len(last.http) = 1
                     /\ last.http[1].method = "POST"
                     /\ last.http[1].entity_id = LastRegister.entity_id
                     /\ last.http[1].val = c
                     /\ LastRegister.entity_point = "brightness" =>
                            /\ last.http[1].service = "turn_on"
                            /\ last.http[1].key = "brightness"
                     /\ (last.outcome = "ok") <=> (last.resps[1] = "ok")
                     /\ last.outcome = "ok" => last.ret = c
                ELSE last.outcome = "ValidationError" /\ last.http = <<>>

\* 255 is accepted as a brightness and goes out as brightness: 255
C11_Witness ==
    /\ IsWrite /\ LastRegister.entity_point = "brightness"
    /\ last.value = PyInt(255)
    /\ last.outcome = "ok"
    /\ last.http[1].key = "brightness" /\ last.http[1].val = PyInt(255)

\* round((f - 32) * 5 / 9, 1) of a number f, as a float in tenths: the tenth
\* nearest to the exact quotient
C12_Celsius(f) ==
    LET x == 5 * (Tenths(f) - 320)
    IN PyFloat(CHOOSE r \in -400..1500 : 2 * (9 * r - x) <= 9 /\ 2 * (x - 9 * r) <= 9)

\* C12: a temperature write of a number f on a thermostat point configured in
\* Celsius dispatches set_temperature with (f-32)*5/9 rounded to one decimal,
\* on a point configured in Fahrenheit with f unchanged.
C12_TemperatureByPointUnit ==
    (/\ IsWrite /\ ~LastRegister.read_only
     /\ LastRegister.entity_id.domain = "climate"
     /\ LastRegister.entity_point = "temperature"
     /\ last.outcome # "CoercionError"
     /\ IsNumber(LastRegister.value)) =>
        last.http = <<PostReq("climate", "set_temperature", LastRegister.entity_id,
                              "temperature",
                              IF LastRegister.units = PyStr("C")
                              THEN C12_Celsius(LastRegister.value)
                              ELSE LastRegister.value)>>

WritableDomains == {"light", "input_boolean", "climate", "fan", "switch", "cover"}

\* the sub-points each writable domain supports
SupportedPoints(domain) ==
    CASE domain = "light" -> {"state", "brightness"}
      [] domain = "climate" -> {"state", "temperature"}
      [] domain = "fan" -> {"state", "percentage"}
      [] domain = "cover" -> {"state", "position"}
      [] OTHER -> {"state"}

\* C13: a write to a writable point of a writable domain whose sub-point the
\* domain does not support fails with an error and issues no HTTP call.
C13_UnsupportedSubPointFails ==
    (/\ IsWrite /\ ~LastRegister.read_only
     /\ LastRegister.entity_id.domain \in WritableDomains
     /\ LastRegister.entity_point \notin SupportedPoints(LastRegister.entity_id.domain)) =>
        last.outcome # "ok" /\ last.http = <<>>

\* a write that passed the read-only guard on an entity of no writable domain
GenericWrite ==
    /\ IsWrite /\ ~LastRegister.read_only
    /\ LastRegister.entity_id.domain \notin WritableDomains

\* C14 as stated: a write to a writable point whose entity id has none of the
\* six prefixes fails with the unsupported-domain error and issues no HTTP
\* call.
C14_GenericWriteUnsupported ==
    GenericWrite => last.outcome = "UnsupportedDomainError" /\ last.http = <<>>

\* C14 amended: such a write never issues an HTTP call and always fails: with
\* the coercion error when the value does not coerce to the declared type
\* (the coercion comes first), with the unsupported-domain error otherwise.
C14_GenericWriteFails ==
    GenericWrite =>
        /\ last.http = <<>>
        /\ last.outcome = IF Coerce(LastRegister.reg_type, last.value) = Absent
                          THEN "CoercionError" ELSE "UnsupportedDomainError"

\* a writable sensor point is written 1 and the write ends in the
\* unsupported-domain error
C14_Witness ==
    /\ GenericWrite
    /\ LastRegister.entity_id.domain = "sensor"
    /\ last.value = PyInt(1)
    /\ last.outcome = "UnsupportedDomainError"

\* C15: after scrape_all, every point in the result has its cached value equal
\* to the value reported, and a GET went out for every register, read-only
\* and writable.
C15_ScrapeUpdatesCache ==
    IsScrape =>
        /\ \A i \in 1..Len(registers) :
              /\ GetReq(registers[i].entity_id) \in {last.http[k] : k \in 1..Len(last.http)}
              /\ registers[i].point_name \in DOMAIN last.result =>
                    registers[i].value = last.result[registers[i].point_name]
        /\ Len(last.http) = Len(registers)
        /\ \A p \in DOMAIN last.result : p \in PointNames(registers)

\* a scrape reported a read-only and a writable point, both cached
C15_Witness ==
    /\ IsScrape
    /\ \E i, j \in 1..Len(registers) :
          /\ registers[i].read_only /\ ~registers[j].read_only
          /\ registers[i].point_name \in DOMAIN last.result
          /\ registers[j].point_name \in DOMAIN last.result
          /\ registers[i].value # PyNone /\ registers[j].value # PyNone

IsCoverState(r) == r.entity_id.domain = "cover" /\ r.entity_point = "state"

C18_GetPointUpdatesCache ==
    (last.op = "get_point" /\ last.outcome = "ok") =>
        PyEq(LastRegister.value, last.ret)

IsOnOffState(r) ==
    /\ r.entity_id.domain \in {"light", "input_boolean", "fan", "switch"}
    /\ r.entity_point = "state"

\* C17: when scrape_all reads an on/off state point whose hub state is neither
\* on nor off, the point is omitted from the result, its cached value stays
\* what it was, and every other point is still fetched and, unless it fails
\* itself, reported.
C17_UnknownOnOffLeftUnset ==
    IsScrape =>
        \A i \in 1..Len(registers) :
            (/\ IsOnOffState(registers[i]) /\ last.resps[i] = "ok"
             /\ hub[registers[i].entity_id].state \notin {"on", "off"}) =>
                /\ registers[i].point_name \notin DOMAIN last.result
                /\ registers[i].value = last.before[i]
                /\ \A j \in 1..Len(registers) \ {i} :
                      /\ GetReq(registers[j].entity_id)
                            \in {last.http[k] : k \in 1..Len(last.http)}
                      /\ (/\ last.resps[j] = "ok"
                          /\ C4_Expected(registers[j], hub[registers[j].entity_id]).kind
                                = "value") =>
                            registers[j].point_name \in DOMAIN last.result

\* a light cached as on has become unavailable: the scrape leaves the 1 in
\* the cache, omits the point and reports the other one
C17_Witness ==
    /\ IsScrape
    /\ \E i, j \in 1..Len(registers) :
          /\ i # j
          /\ IsOnOffState(registers[i]) /\ last.resps[i] = "ok"
          /\ hub[registers[i].entity_id].state = "unavailable"
          /\ last.before[i] = PyInt(1) /\ registers[i].value = PyInt(1)
          /\ registers[i].point_name \notin DOMAIN last.result
          /\ registers[j].point_name \in DOMAIN last.result

\* both callers wrote the same point, both POSTs were answered with 200 and
\* both calls have returned
RaceOver ==
    /\ DOMAIN callers.of = Callers
    /\ \A c \in Callers : callers.of[c].pc = "done" /\ callers.of[c].outcome = "ok"
    /\ callers.of[1].point = callers.of[2].point
    /\ Len(callers.order) = 2

\* C19: when two callers write the same point concurrently, the cached value
\* ends as the value of the write whose hub response arrived last, in every
\* interleaving.
C19_LastResponseWins ==
    RaceOver =>
        registers[get_register_by_name(registers, callers.of[1].point)].value
            = callers.of[callers.order[2]].coerced

\* C20: once the register table is built, each point's cached value is the
\* Starting Value its registry entry configures.
C20_CacheSeededFromStartingValue ==
    (last.op = "configure" /\ last.outcome = "ok") =>
        /\ Len(registers) = Len(registry_config)
        /\ \A i \in 1..Len(registers) :
              "Starting Value" \in DOMAIN registry_config[i] =>
                  registers[i].value = registry_config[i]["Starting Value"]

\* configure has run and its settings were complete
TableBuilt == last.op = "configure" /\ last.outcome # "ConfigurationError"
HasEntityId(e) == "Entity ID" \in DOMAIN e /\ e["Entity ID"] # EmptyId

\* C21 as stated: building the table fails exactly when an entry lacks one of
\* Entity ID, Entity Point, Volttron Point Name.
C21_FailsOnThreeFields ==
    TableBuilt =>
        (last.outcome # "ok" <=>
            \E i \in 1..Len(registry_config) :
                ~({"Entity ID", "Entity Point", "Volttron Point Name"}
                     \subseteq DOMAIN registry_config[i]))

\* what makes the build fail at an entry
C21_Incomplete(e) ==
    \/ "Entity ID" \notin DOMAIN e
    \/ /\ e["Entity ID"] # EmptyId
       /\ ~({"Entity Point", "Volttron Point Name", "Units"} \subseteq DOMAIN e)

\* C21 amended: building the table fails exactly when an entry lacks Entity
\* ID, or has a non-empty Entity ID and lacks one of Entity Point, Volttron
\* Point Name or Units; the entries before the first such entry are in the
\* table; without such an entry every entry with a non-empty Entity ID is
\* built, also when Writable or Type is absent.
C21_FailsOnFourFields ==
    TableBuilt =>
        LET bad == {i \in 1..Len(registry_config) : C21_Incomplete(registry_config[i])}
            upto == IF bad = {} THEN Len(registry_config)
                    ELSE (CHOOSE i \in bad : \A j \in bad : i <= j) - 1
        IN /\ last.outcome # "ok" <=> bad # {}
           /\ Len(registers) = Cardinality({i \in 1..upto : HasEntityId(registry_config[i])})

\* an entry without Type and one without Writable were both built
C21_Witness ==
    /\ TableBuilt /\ last.outcome = "ok"
    /\ Len(registers) = Len(registry_config)
    /\ \E i, j \in 1..Len(registry_config) :
          /\ "Type" \notin DOMAIN registry_config[i]
          /\ "Writable" \notin DOMAIN registry_config[j]

\* C22: entries with an empty Entity ID are skipped without error and yield
\* no register, and every other entry, before or after, yields exactly one:
\* the table is the entries with a non-empty id, in order.
C22_EmptyIdSkipped ==
    TableBuilt =>
        /\ (\A i \in 1..Len(registry_config) :
               /\ "Entity ID" \in DOMAIN registry_config[i]
               /\ registry_config[i]["Entity ID"] # EmptyId =>
                     {"Entity Point", "Volttron Point Name", "Units"}
                        \subseteq DOMAIN registry_config[i])
              => last.outcome = "ok"
        /\ last.outcome = "ok" =>
              LET kept == SelectSeq(registry_config, HasEntityId)
              IN /\ Len(registers) = Len(kept)
                 /\ \A k \in 1..Len(kept) :
                       /\ registers[k].entity_id = kept[k]["Entity ID"]
                       /\ registers[k].point_name = kept[k]["Volttron Point Name"]

\* an entry with an empty id came first and the entry after it was built
C22_Witness ==
    /\ TableBuilt /\ last.outcome = "ok"
    /\ Len(registry_config) >= 2
    /\ registry_config[1]["Entity ID"] = EmptyId
    /\ Len(registers) = Len(registry_config) - 1
    /\ registers[1].entity_id = registry_config[2]["Entity ID"]

\* one of the three settings is absent or None
C24_SettingMissing ==
    \E k \in {"ip_address", "access_token", "port"} :
        k \notin DOMAIN driver_config \/ driver_config[k] = PyNone

\* C24: configure fails when ip_address, access_token or port is missing, and
\* then parses no registry entry: the table is as before the call (empty).
C24_MissingSettingStopsConfigure ==
    last.op = "configure" =>
        IF C24_SettingMissing
        THEN /\ last.outcome = "ConfigurationError"
             /\ registers = <<>>
             /\ units = PyNone
        ELSE last.outcome # "ConfigurationError"

\* the port is missing and the registry's complete entries were not parsed
C24_Witness ==
    /\ last.op = "configure" /\ last.outcome = "ConfigurationError"
    /\ "port" \notin DOMAIN driver_config
    /\ \A i \in 1..Len(registry_config) : ~C21_Incomplete(registry_config[i])
    /\ \E i \in 1..Len(registry_config) : HasEntityId(registry_config[i])
    /\ registers = <<>>

\* the Writable fields that render to "true" whatever their case
C23_RendersTrue(regDef) ==
    /\ "Writable" \in DOMAIN regDef
    /\ regDef["Writable"] \in {PyBool(TRUE), PyStr("true"), PyStr("TRUE"), PyStr("True")}

\* C23: an entry yields a writable point exactly when its Writable field,
\* rendered as a string, is "true" in any case; with any other value, or
\* without the field, the point is read-only and every write to it is
\* rejected before any HTTP call, its cached value unchanged.
C23_WritableIffTrue ==
    /\ \A i \in 1..Len(registers) :
          registers[i].read_only <=> ~C23_RendersTrue(registry_config[i])
    /\ IsWrite /\ ~C23_RendersTrue(registry_config[LastIndex]) =>
          /\ last.outcome = "ReadOnlyError"
          /\ last.http = <<>>
          /\ LastRegister.value = last.before[LastIndex]

\* a point configured Writable TRUE took a write
C23_Witness ==
    /\ IsWrite
    /\ DictGet(registry_config[LastIndex], "Writable", PyNone) = PyStr("TRUE")
    /\ ~LastRegister.read_only
    /\ last.outcome = "ok"

\* C30: on a writable point whose Type is absent or unknown every write to a
\* state, brightness, percentage or position sub-point is rejected, and only
\* a climate temperature write can succeed.
C30_StringTypedPointRejects ==
    /\ IsWrite
    /\ ~LastRegister.read_only
    /\ DictGet(registry_config[LastIndex], "Type", "double") \notin {"int", "string"}
    => /\ LastRegister.entity_point \in {"state", "brightness", "percentage", "position"}
          => last.outcome # "ok" /\ last.http = <<>>
       /\ last.outcome = "ok"
          => /\ StartsWith(LastRegister.entity_id, "climate")
             /\ LastRegister.entity_point = "temperature"

\* C30 but for the input_boolean sub-points other than state
C30_ButInputBoolean ==
    (IsWrite /\ StartsWith(LastRegister.entity_id, "input_boolean")
        /\ LastRegister.entity_point # "state")
    \/ C30_StringTypedPointRejects

\* C25: whether a thermostat temperature write is converted depends on the
\* units of the point written only, whatever the units of the other entries
\* and the order they are parsed in: the temperature posted differs from the
\* one written exactly when the point's own units are Celsius.
C25_ConversionByOwnUnits ==
    (/\ IsWrite
     /\ StartsWith(LastRegister.entity_id, "climate")
     /\ LastRegister.entity_point = "temperature"
     /\ IsNumber(LastRegister.value)
     /\ last.http # <<>>) =>
        (last.http[1].val # LastRegister.value <=> LastRegister.units = PyStr("C"))

\* C26: a write issues at most one POST and no GET whatever its outcome; a
\* write that succeeds issued exactly one POST, returns the coerced value and
\* leaves the cached value equal to what it returned.
C26_OnePostPerWrite ==
    IsWrite =>
        /\ Len(last.http) <= 1
        /\ \A k \in 1..Len(last.http) : last.http[k].method = "POST"
        /\ last.outcome = "ok" =>
              /\ Len(last.http) = 1
              /\ last.ret = Coerce(LastRegister.reg_type, last.value)
              /\ LastRegister.value = last.ret

\* C26 but for the input_boolean sub-points other than state
C26_ButInputBoolean ==
    (IsWrite /\ StartsWith(LastRegister.entity_id, "input_boolean")
        /\ LastRegister.entity_point # "state")
    \/ C26_OnePostPerWrite

\* the values int() and float() raise on
C27_Uncoercible(reg_type, value) ==
    reg_type \in {"int", "float"} /\ value \in {PyNone, PyStr("abc")}

\* C27: a write is checked for read-only, then coerced, then validated, then
\* dispatched: a value that cannot be coerced fails with the read-only error
\* on a read-only point and with the coercion error on a writable one, before
\* any domain check or HTTP call and with the cache untouched; a write that
\* fails a domain check has issued no HTTP call.
C27_CheckOrder ==
    IsWrite =>
        /\ LastRegister.read_only <=> last.outcome = "ReadOnlyError"
        /\ ~LastRegister.read_only =>
              (C27_Uncoercible(LastRegister.reg_type, last.value)
                  <=> last.outcome = "CoercionError")
        /\ last.outcome \in {"ReadOnlyError", "CoercionError"} =>
              /\ last.http = <<>>
              /\ LastRegister.value = last.before[LastIndex]
        /\ last.outcome \in {"ValidationError", "UnsupportedDomainError"} =>
              last.http = <<>>

\* a value that cannot be coerced was written to a writable point of a domain
\* that takes no writes: the coercion error came first
C27_Witness ==
    /\ IsWrite
    /\ ~LastRegister.read_only
    /\ StartsWith(LastRegister.entity_id, "sensor")
    /\ last.value = PyStr("abc")
    /\ last.outcome = "CoercionError"

\* C28: every request of a write to a point of domain D is a POST to a
\* service of D that carries the entity id of the point written.
C28_PostToOwnDomain ==
    IsWrite =>
        \A k \in 1..Len(last.http) :
            /\ last.http[k].method = "POST"
            /\ last.http[k].domain = LastRegister.entity_id.domain
            /\ last.http[k].entity_id = LastRegister.entity_id

\* a switch was turned on
C28_Witness ==
    /\ IsWrite
    /\ LastRegister.entity_id.domain = "switch"
    /\ last.http # <<>>
    /\ last.http[1].service = "turn_on"
    /\ last.outcome = "ok"

C29_ReadOnly(register) == register.read_only
C29_Writable(register) == ~register.read_only

\* C29: scrape_all and get_point issue GET requests only and leave the hub as
\* it is; get_point issues one GET, scrape_all one GET per register, for the
\* read-only registers first and then the writable ones, each group in table
\* order, whatever the answers to the earlier requests.
C29_ReadsNeverPost ==
    [][(last.op = "idle" /\ last'.op \in {"scrape_all", "get_point"}) =>
          /\ hub' = hub
          /\ \A k \in 1..Len(last'.http) : last'.http[k].method = "GET"
          /\ last'.op = "get_point" => Len(last'.http) = 1
          /\ last'.op = "scrape_all" =>
                LET visited == SelectSeq(registers, C29_ReadOnly)
                                  \o SelectSeq(registers, C29_Writable)
                IN /\ Len(last'.http) = Len(registers)
                   /\ \A k \in 1..Len(visited) :
                         last'.http[k].entity_id = visited[k].entity_id]_vars

\* a scrape of a table whose first register is writable and whose second is
\* read-only asked for the read-only one first, got no answer, and went on to
\* read the writable one
C29_Witness ==
    /\ last.op = "scrape_all"
    /\ Len(registers) >= 2
    /\ ~registers[1].read_only /\ registers[2].read_only
    /\ last.http[1].entity_id = registers[2].entity_id
    /\ last.resps[2] # "ok"
    /\ registers[1].point_name \in DOMAIN last.result

====
